---- MODULE Spec2Model ----
(***************************************************************************)
(* Model of the diffstat cross-validation script (src/unnamed/part_000):   *)
(* probe the repository with pepper, enumerate its revisions with the      *)
(* native client, and compare pepper's diffstat with the native one for    *)
(* every revision.                                                         *)
(*                                                                         *)
(* Text is a sequence of one-character strings; the fixed text of a        *)
(* command template, a file name or a subprocess output line is kept as a  *)
(* single element.  Subprocesses are external: what they print and how     *)
(* they exit is chosen from the pools below.  System calls (chdir, popen,  *)
(* open) are taken to succeed.                                             *)
(*                                                                         *)
(* A second state machine, PlotSpec, models the temporary files of a Plot  *)
(* object (src/src/plot.cpp); the two do not run in the same behaviour.    *)
(***************************************************************************)
EXTENDS Integers, Sequences, FiniteSets, TLC

(***************************************************************************)
(* Bounds and input pools                                                  *)
(***************************************************************************)
MaxLog == 2

Subversion == <<"s","u","b","v","e","r","s","i","o","n">>
Git == <<"g","i","t">>
Mercurial == <<"m","e","r","c","u","r","i","a","l">>
Bazaar == <<"b","z","r">>

LaunchDir == <<"/","s","r","v">>
AbsRepo == <<"/","s","r","v","/","r","e","p","o">>
RelRepo == <<"r","e","p","o">>
HttpUrl == <<"h","t","t","p",":","/","/","h","o","s","t","/","r","e","p","o">>
PepperArg == <<"b","i","n","/","p","e","p","p","e","r">>

ArgvPool == { <<>>, <<RelRepo>>, <<AbsRepo, PepperArg>> }

TypeLines == { Subversion \o <<"\n">>, Git \o <<"\n">>,
               Mercurial \o <<"\n">>, Bazaar \o <<"\n">> }
UrlLines == { AbsRepo \o <<"\n">>, HttpUrl \o <<"\n">> }
ProbeOutputs == { <<>> } \cup { <<t>> : t \in TypeLines }
                  \cup { <<t, u>> : t \in TypeLines, u \in UrlLines }
ExitCodes == {0, 1}

SvnLine == <<"r","4","2"," ","|"," ","x","\n">>
HgLine == <<"5",":","a","b","c","1","2","3","d","e","f","\n">>
BlankLine == <<"\n">>
LogLines == { SvnLine, HgLine, BlankLine }
LogOutputs == UNION { [1..n -> LogLines] : n \in 0..MaxLog }

Header == <<"INSERTED,DELETED,MODIFIED,FILENAME", "\n">>
RowFoo == <<"3,1,0,foo.c", "\n">>
RowBar == <<"2,2,0,bar.c", "\n">>
\* what a helper subprocess prints (as lines) and how it exits
PepperRuns == { [lines |-> <<Header, RowFoo, RowBar>>, exit |-> 0],
                [lines |-> <<Header, RowBar, RowFoo>>, exit |-> 0],
                [lines |-> <<>>, exit |-> 1] }
DiffText == <<"--- a/foo.c", "\n">>
NativeRuns == { [lines |-> <<DiffText>>, exit |-> 0],
                [lines |-> <<>>, exit |-> 1] }
DiffstatRuns == { [lines |-> <<Header, RowFoo, RowBar>>, exit |-> 0],
                  [lines |-> <<>>, exit |-> 1] }

(***************************************************************************)
(* Library functions the script calls                                      *)
(***************************************************************************)
Whitespace == {" ", "\n", "\t", "\r"}
Digits == {"0","1","2","3","4","5","6","7","8","9"}

RECURSIVE LStrip(_)
LStrip(s) == IF s # <<>> /\ Head(s) \in Whitespace THEN LStrip(Tail(s)) ELSE s

RECURSIVE RStrip(_)
RStrip(s) == IF s # <<>> /\ s[Len(s)] \in Whitespace
             THEN RStrip(SubSeq(s, 1, Len(s) - 1)) ELSE s

\* String#strip
Strip(s) == RStrip(LStrip(s))

RECURSIVE Join(_)
\* Array#join of the lines read from a pipe
Join(lines) == IF lines = <<>> THEN <<>> ELSE Head(lines) \o Join(Tail(lines))

\* File.absolute_path, relative names resolved against the working directory
AbsolutePath(dir, p) == IF p # <<>> /\ Head(p) = "/" THEN p ELSE dir \o <<"/">> \o p

RECURSIVE Sprintf(_, _)
\* Kernel#sprintf on a template whose directives are all %s
Sprintf(fmt, args) ==
    IF fmt = <<>> THEN <<>>
    ELSE IF Head(fmt) = "%s" THEN Head(args) \o Sprintf(Tail(fmt), Tail(args))
    ELSE <<Head(fmt)>> \o Sprintf(Tail(fmt), args)

VARIABLES pc, ARGV, repo, pepper, out, status, type, url, olddir, cwd,
          log, i, k, rev, out_pepper, diff_data, out_native,
          pipe, openPipes, cmds, stdout, stderr, files, nwrites, compared,
          helperExits, exitStatus, error

\* the state of a Plot object (plot.cpp) and of the temporary files on disk
VARIABLES plot, g, m_tempfiles, tmpfs, created, nextTmp, result

scriptVars == <<pc, ARGV, repo, pepper, out, status, type, url, olddir, cwd,
                log, i, k, rev, out_pepper, diff_data, out_native,
                pipe, openPipes, cmds, stdout, stderr, files, nwrites, compared,
                helperExits, exitStatus, error>>
plotVars == <<plot, g, m_tempfiles, tmpfs, created, nextTmp, result>>
vars == <<scriptVars, plotVars>>

(***************************************************************************)
(* Regular expressions of the backend table                                *)
(***************************************************************************)
RECURSIVE DigitRun(_, _)
\* length of the longest run of [0-9] in x starting at position p
DigitRun(x, p) == IF p <= Len(x) /\ x[p] \in Digits THEN 1 + DigitRun(x, p + 1) ELSE 0

RECURSIVE DotRun(_, _)
\* length of the longest run of . (any character but newline) from position p
DotRun(x, p) == IF p <= Len(x) /\ x[p] # "\n" THEN 1 + DotRun(x, p + 1) ELSE 0

\* positions at which ^ matches: start of the string and after each newline
LineStarts(x) == { p \in 1..Len(x) : p = 1 \/ x[p - 1] = "\n" }

\* /^r([0-9]+)/ tried at position p
SvnMatchAt(x, p) == p <= Len(x) /\ x[p] = "r" /\ DigitRun(x, p + 1) >= 1
SvnCapture(x, p) == SubSeq(x, p + 1, p + DigitRun(x, p + 1))

\* /^[0-9]+:(.*)/ tried at position p
HgMatchAt(x, p) == LET d == DigitRun(x, p)
                   IN  d >= 1 /\ p + d <= Len(x) /\ x[p + d] = ":"
\* variant: takes the local revision number in front of the colon
HgCaptureNumber(x, p) == SubSeq(x, p, p + DigitRun(x, p) - 1)
HgCapture(x, p) == LET d == DigitRun(x, p)
                   IN  SubSeq(x, p + d + 1, p + d + DotRun(x, p + d + 1))

SvnRegex == "^r([0-9]+)"
HgRegex == "^[0-9]+:(.*)"

MatchAt(regex, x, p) == IF regex = SvnRegex THEN SvnMatchAt(x, p) ELSE HgMatchAt(x, p)
CaptureAt(regex, x, p) == IF regex = SvnRegex THEN SvnCapture(x, p) ELSE HgCapture(x, p)

\* Regexp#match: the leftmost match, with its capture groups
RegexMatch(regex, x) ==
    LET ps == { p \in LineStarts(x) : MatchAt(regex, x, p) }
    IN  IF ps = {} THEN [matched |-> FALSE, captures |-> <<>>]
        ELSE LET p == CHOOSE q \in ps : \A r \in ps : q <= r
             IN  [matched |-> TRUE, captures |-> <<CaptureAt(regex, x, p)>>]

RECURSIVE FilterLog(_, _)
\* the newlog loop: keep the first capture of every matching line
FilterLog(regex, lines) ==
    IF lines = <<>> THEN <<>>
    ELSE LET match == RegexMatch(regex, Head(lines))
         IN  (IF match.matched THEN <<match.captures[1]>> ELSE <<>>)
                 \o FilterLog(regex, Tail(lines))

(***************************************************************************)
(* The backend table                                                       *)
(***************************************************************************)
diffcmd ==
    (Subversion :> [log |-> <<"svn log -q ", "%s">>,
                    logregex |-> SvnRegex,
                    single |-> <<"svn diff -c ", "%s", " ", "%s">>,
                    double |-> <<"svn diff -r ", "%s", ":", "%s", " ", "%s">>,
                    passurl |-> TRUE])
    @@ (Git :> [log |-> <<"git rev-list HEAD">>,
                single |-> <<"git diff-tree -U --no-renames --root ", "%s">>,
                double |-> <<"git diff-tree -U --no-renames ", "%s", " ", "%s">>,
                passurl |-> FALSE])
    @@ (Mercurial :> [log |-> <<"hg log -q">>,
                      logregex |-> HgRegex,
                      single |-> <<"hg diff -c ", "%s">>,
                      double |-> <<"hg diff -r ", "%s", " -r ", "%s">>,
                      passurl |-> FALSE])

HasLogRegex(t) == "logregex" \in DOMAIN diffcmd[t]

\* variant: rewrites for every backend
NormalizeUrlAnyBackend(t, u) ==
    IF u # <<>> /\ Head(u) = "/"
    THEN <<"f","i","l","e",":","/","/">> \o u
    ELSE u

\* the url rewrite of the probe result
NormalizeUrl(t, u) ==
    IF t = Subversion /\ u # <<>> /\ Head(u) = "/"
    THEN <<"f","i","l","e",":","/","/">> \o u
    ELSE u

PepperPath(name) == <<"diff.pepper.">> \o name
NativePath(name) == <<"diff.native.">> \o name
\* variant: the name is left relative to the working directory
ArtifactPathCwd(dir, name) == cwd \o <<"/">> \o name
ArtifactPath(dir, name) == dir \o <<"/">> \o name

\* an IO.popen pipe: the child's name, its exit status and what was written to it
Pipe(n, e, input) == [name |-> n, exit |-> e, stdin |-> input]
NoPipe == Pipe("none", 0, <<>>)
\* a command line handed to IO.popen, and the directory it runs in
Run(c, dir) == [cmd |-> c, cwd |-> dir]

(***************************************************************************)
(* The script, step by step                                                *)
(***************************************************************************)
\* no Plot object has been made
NoPlot ==
    /\ plot = "none" /\ g = "unset"
    /\ m_tempfiles = <<>> /\ tmpfs = {} /\ created = {}
    /\ nextTmp = 1 /\ result = "none"

Init ==
    /\ pc = "args"
    /\ ARGV \in ArgvPool
    /\ repo = <<>> /\ pepper = <<>>
    /\ out = <<>> /\ status = 0
    /\ type = <<>> /\ url = <<>>
    /\ olddir = <<>> /\ cwd = LaunchDir
    /\ log = <<>> /\ i = 0 /\ k = 1 /\ rev = <<>>
    /\ out_pepper = <<>> /\ diff_data = <<>> /\ out_native = <<>>
    /\ pipe = NoPipe /\ openPipes = {}
    /\ cmds = <<>> /\ stdout = <<>> /\ stderr = <<>>
    /\ files = <<>> /\ nwrites = 0 /\ compared = <<>>
    /\ helperExits = <<>>
    /\ exitStatus = -1 /\ error = "none"
    /\ NoPlot

argVars == <<ARGV, repo, pepper>>
probeVars == <<out, type, url>>
dirVars == <<olddir, cwd>>
loopVars == <<log, i, k, rev>>
dataVars == <<out_pepper, diff_data, out_native>>
pipeVars == <<pipe, openPipes, cmds, status>>
reportVars == <<stdout, stderr, files, nwrites, compared>>

\* the process ends with the given status
Exit(code, err) == /\ pc' = "exit" /\ exitStatus' = code /\ error' = err

\* lines 11-16
ParseArgs ==
    /\ pc = "args"
    /\ IF Len(ARGV) = 0
       THEN /\ Exit(1, "RuntimeError")
            /\ UNCHANGED <<repo, pepper>>
       ELSE /\ repo' = ARGV[1]
            /\ pepper' = IF Len(ARGV) > 1 THEN AbsolutePath(cwd, ARGV[2])
                         ELSE <<"pepper">>
            /\ pc' = "probe"
            /\ UNCHANGED <<exitStatus, error>>
    /\ UNCHANGED <<ARGV, probeVars, dirVars, loopVars, dataVars, pipeVars,
                   reportVars, helperExits>>
    /\ UNCHANGED plotVars

\* lines 19-28: run the probe script and read all it prints
ProbeRun ==
    /\ pc = "probe"
    /\ \E o \in ProbeOutputs, e \in ExitCodes :
          /\ out' = o
          /\ pipe' = Pipe("probe", e, <<>>)
    /\ openPipes' = openPipes \cup {"probe"}
    /\ cmds' = Append(cmds, Run(pepper \o <<" -q ", "type.tmp", " ">> \o repo, cwd))
    /\ pc' = "probe_close"
    /\ UNCHANGED <<argVars, type, url, dirVars, loopVars, dataVars, status,
                   reportVars, helperExits, exitStatus, error>>
    /\ UNCHANGED plotVars

\* variant: the exit status of the probe is not looked at
ProbeCloseUnchecked ==
    /\ pc = "probe_close"
    /\ status' = pipe.exit
    /\ openPipes' = openPipes \ {pipe.name}
    /\ pc' = "parse"
    /\ UNCHANGED <<argVars, probeVars, dirVars, loopVars, dataVars, pipe, cmds,
                   reportVars, helperExits, exitStatus, error>>
    /\ UNCHANGED plotVars

\* lines 29-30
ProbeClose ==
    /\ pc = "probe_close"
    /\ status' = pipe.exit
    /\ openPipes' = openPipes \ {pipe.name}
    /\ IF status' # 0
       THEN Exit(1, "SystemExit")
       ELSE pc' = "parse" /\ UNCHANGED <<exitStatus, error>>
    /\ UNCHANGED <<argVars, probeVars, dirVars, loopVars, dataVars, pipe, cmds,
                   reportVars, helperExits>>
    /\ UNCHANGED plotVars

\* variant: a missing line is read as the empty string
ParseProbeLenient ==
    /\ pc = "parse"
    /\ type' = IF Len(out) >= 1 THEN Strip(out[1]) ELSE <<>>
    /\ url' = NormalizeUrl(type', IF Len(out) >= 2 THEN Strip(out[2]) ELSE <<>>)
    /\ pc' = "lookup"
    /\ UNCHANGED <<argVars, out, dirVars, loopVars, dataVars, pipeVars,
                   reportVars, helperExits, exitStatus, error>>
    /\ UNCHANGED plotVars

\* lines 32-37; nil.strip raises NoMethodError
ParseProbe ==
    /\ pc = "parse"
    /\ IF Len(out) = 0
       THEN /\ Exit(1, "NoMethodError")
            /\ UNCHANGED <<type, url>>
       ELSE IF Len(out) = 1
       THEN /\ type' = Strip(out[1])
            /\ Exit(1, "NoMethodError")
            /\ UNCHANGED url
       ELSE /\ type' = Strip(out[1])
            /\ url' = NormalizeUrl(type', Strip(out[2]))
            /\ pc' = "lookup"
            /\ UNCHANGED <<exitStatus, error>>
    /\ UNCHANGED <<argVars, out, dirVars, loopVars, dataVars, pipeVars,
                   reportVars, helperExits>>
    /\ UNCHANGED plotVars

\* lines 41-64; nil[:passurl] raises NoMethodError
Chdir ==
    /\ pc = "lookup"
    /\ olddir' = cwd
    /\ IF type \notin DOMAIN diffcmd
       THEN /\ Exit(1, "NoMethodError")
            /\ UNCHANGED cwd
       ELSE /\ cwd' = IF diffcmd[type].passurl THEN cwd ELSE AbsolutePath(cwd, url)
            /\ pc' = "log"
            /\ UNCHANGED <<exitStatus, error>>
    /\ UNCHANGED <<argVars, probeVars, loopVars, dataVars, pipeVars,
                   reportVars, helperExits>>
    /\ UNCHANGED plotVars

\* lines 67-73: run the log command and read all it prints; the pipe stays open
LogRun ==
    /\ pc = "log"
    /\ \E o \in LogOutputs, e \in ExitCodes :
          /\ log' = o
          /\ pipe' = Pipe("log", e, <<>>)
    /\ openPipes' = openPipes \cup {"log"}
    /\ cmds' = Append(cmds,
                 Run(IF diffcmd[type].passurl
                     THEN Sprintf(diffcmd[type].log, <<url>>)
                     ELSE Sprintf(diffcmd[type].log, <<>>), cwd))
    /\ pc' = "extract"
    /\ UNCHANGED <<argVars, probeVars, dirVars, i, k, rev, dataVars, status,
                   reportVars, helperExits, exitStatus, error>>
    /\ UNCHANGED plotVars

\* lines 74-84
ExtractLog ==
    /\ pc = "extract"
    /\ log' = IF HasLogRegex(type) THEN FilterLog(diffcmd[type].logregex, log)
              ELSE log
    /\ pc' = "prepare"
    /\ UNCHANGED <<argVars, probeVars, dirVars, i, k, rev, dataVars, pipeVars,
                   reportVars, helperExits, exitStatus, error>>
    /\ UNCHANGED plotVars

\* lines 87-98
PrepareLoop ==
    /\ pc = "prepare"
    /\ i' = 0
    /\ k' = 1
    /\ pc' = "each"
    /\ UNCHANGED <<argVars, probeVars, dirVars, log, rev, dataVars, pipeVars,
                   reportVars, helperExits, exitStatus, error>>
    /\ UNCHANGED plotVars

\* variant: the progress line is printed before the counter is advanced
EachRevStale ==
    /\ pc = "each"
    /\ k <= Len(log)
    /\ rev' = Strip(log[k])
    /\ i' = i + 1
    /\ stdout' = Append(stdout, [i |-> i, total |-> Len(log)])
    /\ pc' = "pepper"
    /\ UNCHANGED <<argVars, probeVars, dirVars, log, k, dataVars, pipeVars,
                   stderr, files, nwrites, compared, helperExits, exitStatus, error>>
    /\ UNCHANGED plotVars

\* lines 99-103: next element of log, progress line
EachRev ==
    /\ pc = "each"
    /\ k <= Len(log)
    /\ rev' = Strip(log[k])
    /\ i' = i + 1
    /\ stdout' = Append(stdout, [i |-> i', total |-> Len(log)])
    /\ pc' = "pepper"
    /\ UNCHANGED <<argVars, probeVars, dirVars, log, k, dataVars, pipeVars,
                   stderr, files, nwrites, compared, helperExits, exitStatus, error>>
    /\ UNCHANGED plotVars

\* lines 105-106
PepperRun ==
    /\ pc = "pepper"
    /\ \E r \in PepperRuns :
          /\ out_pepper' = Join(r.lines)
          /\ pipe' = Pipe("pepper", r.exit, <<>>)
    /\ openPipes' = openPipes \cup {"pepper"}
    /\ cmds' = Append(cmds,
                 Run(pepper \o <<" --no-cache -q ", "diff.tmp", " -r">> \o rev
                            \o <<" ">> \o repo, cwd))
    /\ pc' = "pepper_close"
    /\ UNCHANGED <<argVars, probeVars, dirVars, loopVars, diff_data, out_native,
                   status, reportVars, helperExits, exitStatus, error>>
    /\ UNCHANGED plotVars

\* pipe.close: wait for the child, set $?
ClosePipe(next) ==
    /\ status' = pipe.exit
    /\ openPipes' = openPipes \ {pipe.name}
    /\ helperExits' = Append(helperExits, pipe.exit)
    /\ pc' = next
    /\ UNCHANGED <<argVars, probeVars, dirVars, loopVars, dataVars, pipe, cmds,
                   reportVars, exitStatus, error>>
    /\ UNCHANGED plotVars

\* line 107
PepperClose == pc = "pepper_close" /\ ClosePipe("native")


\* variant: the native diff is always taken of the first revision
NativeRunFirstRev ==
    /\ pc = "native"
    /\ \E r \in NativeRuns :
          /\ diff_data' = r.lines
          /\ pipe' = Pipe("native", r.exit, <<>>)
    /\ openPipes' = openPipes \cup {"native"}
    /\ cmds' = Append(cmds,
                 Run(IF diffcmd[type].passurl
                     THEN Sprintf(diffcmd[type].single, <<Strip(log[1]), url>>)
                     ELSE Sprintf(diffcmd[type].single, <<Strip(log[1])>>), cwd))
    /\ pc' = "native_close"
    /\ UNCHANGED <<argVars, probeVars, dirVars, loopVars, out_pepper, out_native,
                   status, reportVars, helperExits, exitStatus, error>>
    /\ UNCHANGED plotVars

\* lines 109-114
NativeRun ==
    /\ pc = "native"
    /\ \E r \in NativeRuns :
          /\ diff_data' = r.lines
          /\ pipe' = Pipe("native", r.exit, <<>>)
    /\ openPipes' = openPipes \cup {"native"}
    /\ cmds' = Append(cmds,
                 Run(IF diffcmd[type].passurl
                     THEN Sprintf(diffcmd[type].single, <<rev, url>>)
                     ELSE Sprintf(diffcmd[type].single, <<rev>>), cwd))
    /\ pc' = "native_close"
    /\ UNCHANGED <<argVars, probeVars, dirVars, loopVars, out_pepper, out_native,
                   status, reportVars, helperExits, exitStatus, error>>
    /\ UNCHANGED plotVars

\* line 115
NativeClose == pc = "native_close" /\ ClosePipe("diffstat")


\* variant: one leading path component is stripped for every backend
DiffstatRunStripOne ==
    /\ pc = "diffstat"
    /\ \E r \in DiffstatRuns :
          /\ out_native' = Join(r.lines)
          /\ pipe' = Pipe("diffstat", r.exit, diff_data)
    /\ openPipes' = openPipes \cup {"diffstat"}
    /\ cmds' = Append(cmds, Run(<<"diffstat -t -p", "1">>, cwd))
    /\ pc' = "diffstat_close"
    /\ UNCHANGED <<argVars, probeVars, dirVars, loopVars, out_pepper, diff_data,
                   status, reportVars, helperExits, exitStatus, error>>
    /\ UNCHANGED plotVars

\* lines 117-120
DiffstatRun ==
    /\ pc = "diffstat"
    /\ \E r \in DiffstatRuns :
          /\ out_native' = Join(r.lines)
          /\ pipe' = Pipe("diffstat", r.exit, diff_data)
    /\ openPipes' = openPipes \cup {"diffstat"}
    /\ cmds' = Append(cmds,
                 Run(<<"diffstat -t -p", IF type = Subversion THEN "0" ELSE "1">>,
                     cwd))
    /\ pc' = "diffstat_close"
    /\ UNCHANGED <<argVars, probeVars, dirVars, loopVars, out_pepper, diff_data,
                   status, reportVars, helperExits, exitStatus, error>>
    /\ UNCHANGED plotVars

\* line 121
DiffstatClose == pc = "diffstat_close" /\ ClosePipe("compare")

\* variant: only pepper's side is saved
ReportMismatchOneFile ==
    /\ files' = (ArtifactPath(olddir, PepperPath(rev)) :> out_pepper) @@ files
    /\ nwrites' = nwrites + 1
    /\ stderr' = Append(stderr, [rev |-> rev,
                                 names |-> <<PepperPath(rev), NativePath(rev)>>])

\* lines 124-127: both outputs to files in olddir, warning on stderr
ReportMismatch ==
    /\ files' = (ArtifactPath(olddir, NativePath(rev)) :> out_native)
                @@ (ArtifactPath(olddir, PepperPath(rev)) :> out_pepper)
                @@ files
    /\ nwrites' = nwrites + 2
    /\ stderr' = Append(stderr, [rev |-> rev,
                                 names |-> <<PepperPath(rev), NativePath(rev)>>])

\* variant: the first mismatch ends the run
CompareFatal ==
    /\ pc = "compare"
    /\ IF out_pepper # out_native
       THEN ReportMismatch /\ Exit(1, "SystemExit")
       ELSE pc' = "each" /\ UNCHANGED <<files, nwrites, stderr, exitStatus, error>>
    /\ compared' = Append(compared, k)
    /\ k' = k + 1
    /\ rev' = <<>> /\ out_pepper' = <<>> /\ diff_data' = <<>> /\ out_native' = <<>>
    /\ helperExits' = <<>>
    /\ UNCHANGED <<argVars, probeVars, dirVars, log, i, pipeVars, stdout>>
    /\ UNCHANGED plotVars

\* lines 123-129; the block's local variables end with the block
Compare ==
    /\ pc = "compare"
    /\ IF out_pepper # out_native
       THEN ReportMismatch
       ELSE UNCHANGED <<files, nwrites, stderr>>
    /\ compared' = Append(compared, k)
    /\ k' = k + 1
    /\ rev' = <<>> /\ out_pepper' = <<>> /\ diff_data' = <<>> /\ out_native' = <<>>
    /\ helperExits' = <<>>
    /\ pc' = "each"
    /\ UNCHANGED <<argVars, probeVars, dirVars, log, i, pipeVars,
                   stdout, exitStatus, error>>
    /\ UNCHANGED plotVars

\* variant: a run that compared nothing ends as a failure
FinishNonZero ==
    /\ pc = "each"
    /\ k > Len(log)
    /\ Exit(IF compared = <<>> THEN 1 ELSE 0, "none")
    /\ UNCHANGED <<argVars, probeVars, dirVars, loopVars, dataVars, pipeVars,
                   reportVars, helperExits>>
    /\ UNCHANGED plotVars

\* line 130 and the end of the script
Finish ==
    /\ pc = "each"
    /\ k > Len(log)
    /\ Exit(0, "none")
    /\ UNCHANGED <<argVars, probeVars, dirVars, loopVars, dataVars, pipeVars,
                   reportVars, helperExits>>
    /\ UNCHANGED plotVars

Next ==
    \/ ParseArgs
    \/ ProbeRun
    \/ ProbeClose
    \/ ParseProbe
    \/ Chdir
    \/ LogRun
    \/ ExtractLog
    \/ PrepareLoop
    \/ EachRev
    \/ PepperRun
    \/ PepperClose
    \/ NativeRun
    \/ NativeClose
    \/ DiffstatRun
    \/ DiffstatClose
    \/ Compare
    \/ Finish

Spec == Init /\ [][Next]_vars

\* every subprocess terminates and the interpreter keeps running the script
FairSpec == Spec /\ WF_vars(Next)

(***************************************************************************)
(* plot.cpp: a Plot object and its temporary files                         *)
(*                                                                         *)
(* plot    "none", "alive", "destroyed" (~Plot has been entered) or        *)
(*         "crashed" (the process died inside a call)                      *)
(* g       what the pointer g is: "unset" (never assigned), "valid", or    *)
(*         "deleted" (points at a Gnuplot that has been deleted)           *)
(* tmpfs   the temporary files that exist on disk                          *)
(* created the files Plot::tempfile has had sys::fs::mkstemp create        *)
(* result  how the last call ended: "ok", "error" (pushError), "throw"     *)
(*         (an exception left the call) or "crash"                         *)
(* The script is not running in these behaviours.                          *)
(***************************************************************************)
MaxTmp == 3
MaxSeries == 2

Range(f) == { f[j] : j \in DOMAIN f }

ScriptIdle ==
    /\ pc = "idle"
    /\ ARGV = <<>>
    /\ repo = <<>> /\ pepper = <<>>
    /\ out = <<>> /\ status = 0
    /\ type = <<>> /\ url = <<>>
    /\ olddir = <<>> /\ cwd = LaunchDir
    /\ log = <<>> /\ i = 0 /\ k = 1 /\ rev = <<>>
    /\ out_pepper = <<>> /\ diff_data = <<>> /\ out_native = <<>>
    /\ pipe = NoPipe /\ openPipes = {}
    /\ cmds = <<>> /\ stdout = <<>> /\ stderr = <<>>
    /\ files = <<>> /\ nwrites = 0 /\ compared = <<>>
    /\ helperExits = <<>>
    /\ exitStatus = -1 /\ error = "none"

PlotInit == ScriptIdle /\ NoPlot

\* a use of g (delete g, g->cmd): defined when g points at a live Gnuplot,
\* undefined otherwise, and then the process may die or go on
UseG == IF g = "valid" THEN {"ok"} ELSE {"ok", "crash"}

\* lines 488-500, called n times with success and then, if thrown, once more
\* with out.bad(): mkstemp makes a fresh file each time (as mkstemp(3) does),
\* and the path is pushed onto m_tempfiles only after the check of out.bad()
tempfile(n, thrown) ==
    LET made == n + (IF thrown THEN 1 ELSE 0)
    IN  /\ nextTmp + made - 1 <= MaxTmp
        /\ nextTmp' = nextTmp + made
        /\ created' = created \cup (nextTmp..(nextTmp + made - 1))
        /\ tmpfs' = tmpfs \cup (nextTmp..(nextTmp + made - 1))
        /\ m_tempfiles' = m_tempfiles \o [j \in 1..n |-> nextTmp + j - 1]

\* lines 503-509
removeTempfiles ==
    /\ tmpfs' = tmpfs \ Range(m_tempfiles)
    /\ m_tempfiles' = <<>>

\* lines 59-73: the constructor; when new Gnuplot throws, g is left unset and
\* pushError either returns (the object exists) or raises a Lua error
PlotNew ==
    /\ plot = "none"
    /\ \/ /\ g' = "valid" /\ plot' = "alive" /\ result' = "ok"
       \/ /\ g' = "unset" /\ plot' \in {"alive", "none"} /\ result' = "error"
    /\ UNCHANGED <<m_tempfiles, tmpfs, created, nextTmp, scriptVars>>

\* the end of a plotting call: pushError, an exception, or gcmd and return 0
EndCall(how) ==
    /\ CASE how = "error" -> result' = "error" /\ UNCHANGED plot
         [] how = "throw" -> result' = "throw" /\ UNCHANGED plot
         [] how = "ok" -> \E u \in UseG :
                            /\ result' = u
                            /\ plot' = IF u = "crash" THEN "crashed" ELSE plot
    /\ UNCHANGED <<g, scriptVars>>

\* lines 175-273
plot_series ==
    /\ plot = "alive"
    /\ \/ tempfile(0, FALSE) /\ EndCall("error")      \* line 180
       \/ tempfile(0, TRUE) /\ EndCall("throw")       \* line 208, tempfile throws
       \/ tempfile(1, FALSE) /\ EndCall("error")      \* lines 213, 224
       \/ tempfile(1, FALSE) /\ EndCall("ok")         \* lines 272-273

\* lines 277-367: one temporary file per series
plot_multi_series ==
    /\ plot = "alive"
    /\ \E nseries \in 1..MaxSeries :
          \/ tempfile(0, FALSE) /\ EndCall("error")   \* line 282
          \/ \E done \in 0..(nseries - 1) :           \* line 310, tempfile throws
                tempfile(done, TRUE) /\ EndCall("throw")
          \/ \E done \in 1..nseries :                 \* line 320
                tempfile(done, FALSE) /\ EndCall("error")
          \/ tempfile(nseries, FALSE) /\ EndCall("ok") \* lines 364-367

\* lines 371-464
plot_histogram ==
    /\ plot = "alive"
    /\ \/ tempfile(0, FALSE) /\ EndCall("error")      \* line 376
       \/ tempfile(0, TRUE) /\ EndCall("throw")       \* line 403, tempfile throws
       \/ tempfile(1, FALSE) /\ EndCall("error")      \* lines 408, 419
       \/ tempfile(1, FALSE) /\ EndCall("ok")         \* lines 463-464

\* lines 469-478: delete g, then new Gnuplot, which may throw and leave g
\* pointing at the deleted object
flush ==
    /\ plot = "alive"
    /\ \E d \in UseG :
          IF d = "crash"
          THEN /\ plot' = "crashed" /\ result' = "crash"
               /\ UNCHANGED g
          ELSE /\ \/ g' = "valid" /\ result' = "ok"
                  \/ g' = "deleted" /\ result' = "error"
               /\ UNCHANGED plot
    /\ UNCHANGED <<m_tempfiles, tmpfs, created, nextTmp, scriptVars>>

\* lines 76-80: the destructor
PlotDelete ==
    /\ plot = "alive"
    /\ plot' = "destroyed"
    /\ \E d \in UseG :
          IF d = "crash"
          THEN /\ result' = "crash"
               /\ UNCHANGED <<g, m_tempfiles, tmpfs>>
          ELSE /\ g' = "deleted"
               /\ removeTempfiles
               /\ result' = "ok"
    /\ UNCHANGED <<created, nextTmp, scriptVars>>

PlotNext ==
    \/ PlotNew
    \/ plot_series
    \/ plot_multi_series
    \/ plot_histogram
    \/ flush
    \/ PlotDelete

PlotSpec == PlotInit /\ [][PlotNext]_vars

(***************************************************************************)
(* Properties                                                              *)
(***************************************************************************)
\* the probe ran, exited with status zero or not, and the script went on from its close
ProbeFailed == pipe.name = "probe" /\ pipe.exit # 0 /\ pc # "probe_close"
ProbeExitedZero == pipe.name = "probe" /\ pipe.exit = 0 /\ pc \notin {"probe_close", "parse"}
\* type and url have been taken from the probe output
ProbeParsed == pc = "lookup" \/ olddir # <<>>
\* the log has been read and filtered
LogEnumerated == "log" \in openPipes /\ pc # "extract"
InBodyPcs == {"pepper", "pepper_close", "native", "native_close",
              "diffstat", "diffstat_close", "compare"}
InBody == pc \in InBodyPcs
\* nothing after the probe has happened
NothingAfterProbe ==
    /\ Len(cmds) = 1
    /\ cwd = LaunchDir /\ olddir = <<>>
    /\ log = <<>> /\ compared = <<>> /\ stdout = <<>> /\ stderr = <<>>
    /\ DOMAIN files = {} /\ nwrites = 0
    /\ openPipes = {}

\* C1: a mismatch is never fatal.  Once the probe of a supported backend has
\* succeeded, the elements of the enumerated list are compared one by one in
\* list order, each exactly once, and the run ends with exit status 0,
\* however many of them mismatched.
C1_MismatchNeverFatal ==
    /\ [](\A j \in 1..Len(compared) : compared[j] = j)
    /\ (pc = "lookup" /\ type \in DOMAIN diffcmd)
          ~> (/\ pc = "exit" /\ exitStatus = 0
              /\ Len(compared) = Len(log)
              /\ \A j \in 1..Len(log) : compared[j] = j)

\* a finished run of two revisions, exactly one of which mismatched
C1_Witness ==
    /\ pc = "exit" /\ exitStatus = 0
    /\ compared = <<1, 2>> /\ Len(stderr) = 1

\* C2: at the comparison of a revision, files are written exactly when
\* out_pepper and out_native differ: then two files, diff.pepper.<rev> and
\* diff.native.<rev> in the launch directory, hold out_pepper and out_native
\* unchanged and one warning names the revision; when the two are equal no
\* file is written and no warning is printed.
C2_ArtifactsIffDiffer ==
    [][pc = "compare" =>
        LET c == olddir \o <<"/", "diff.pepper.">> \o rev
            n == olddir \o <<"/", "diff.native.">> \o rev
        IN  IF out_pepper # out_native
            THEN /\ nwrites' = nwrites + 2
                 /\ c # n
                 /\ DOMAIN files' = DOMAIN files \cup {c, n}
                 /\ files'[c] = out_pepper /\ files'[n] = out_native
                 /\ \A f \in DOMAIN files \ {c, n} : files'[f] = files[f]
                 /\ Len(stderr') = Len(stderr) + 1
                 /\ SubSeq(stderr', 1, Len(stderr)) = stderr
                 /\ stderr'[Len(stderr')].rev = rev
            ELSE /\ nwrites' = nwrites
                 /\ files' = files
                 /\ stderr' = stderr]_vars

\* two revisions compared: one matched and left nothing, one mismatched and
\* left two files with different contents
C2_Witness ==
    /\ pc = "each" /\ Len(compared) = 2
    /\ nwrites = 2 /\ Len(stderr) = 1
    /\ Cardinality(DOMAIN files) = 2
    /\ \E f, f2 \in DOMAIN files : files[f] # files[f2]

\* C3: when the probe exits with a non-zero status the run ends at once with
\* exit status 1: the probe is the only command run, the working directory
\* is unchanged, no log is read, nothing is compared and no file is written.
C3_ProbeFailureAborts ==
    ProbeFailed => /\ pc = "exit" /\ exitStatus = 1
                   /\ NothingAfterProbe

C3_Witness == pc = "exit" /\ pipe.name = "probe" /\ pipe.exit = 1 /\ Len(out) = 2

\* C4: when the probe exits with status zero but printed fewer than two lines
\* the run ends with exit status 1 before the backend lookup, the log and any
\* comparison.
C4_ShortProbeOutputAborts ==
    (ProbeExitedZero /\ Len(out) < 2) => /\ pc = "exit" /\ exitStatus = 1
                                         /\ NothingAfterProbe

C4_Witness == pc = "exit" /\ ProbeExitedZero /\ Len(out) = 1 /\ type = Git

\* C5: when the probed type is not subversion, git or mercurial the run ends
\* with a reported UnsupportedBackendError, before the working directory is
\* changed and before any log command or comparison.
C5_UnsupportedBackendReported ==
    (ProbeParsed /\ type \notin {Subversion, Git, Mercurial} /\ pc # "lookup")
        => /\ pc = "exit" /\ error = "UnsupportedBackendError"
           /\ cwd = LaunchDir /\ Len(cmds) = 1 /\ compared = <<>>

\* C6: every revision id the comparison loop works on is a non-empty string.
C6_RevisionIdsNonEmpty == InBody => rev # <<>>

IsDigits(t) == \A j \in 1..Len(t) : t[j] \in Digits
\* id is what the parentheses of ^r([0-9]+) take from line
SvnRevOf(line, id) ==
    /\ id # <<>> /\ IsDigits(id)
    /\ Len(line) >= 1 + Len(id)
    /\ line[1] = "r"
    /\ SubSeq(line, 2, 1 + Len(id)) = id
    /\ (Len(line) > 1 + Len(id) => line[2 + Len(id)] \notin Digits)
\* id is what the parentheses of ^[0-9]+:(.*) take from line
HgRevOf(line, id) ==
    \E d \in 1..Len(line) - 1 :
        /\ IsDigits(SubSeq(line, 1, d))
        /\ line[d + 1] = ":"
        /\ Len(line) >= d + 1 + Len(id)
        /\ SubSeq(line, d + 2, d + 1 + Len(id)) = id
        /\ \A j \in 1..Len(id) : id[j] # "\n"
        /\ (Len(line) > d + 1 + Len(id) => line[d + 2 + Len(id)] = "\n")
RevOf(t, line, id) == IF t = Subversion THEN SvnRevOf(line, id) ELSE HgRevOf(line, id)
Pieces(line) == { SubSeq(line, a, b) : a \in 1..Len(line) + 1, b \in 0..Len(line) }
Matching(t, line) == \E id \in Pieces(line) : RevOf(t, line, id)

C8_ProgressAfterComparison == Len(stdout) <= Len(compared)

\* C8 amended: with N revisions the progress line shows 1/N, 2/N, ..., N/N in
\* this order, one update per revision, and update i/N is printed at the top
\* of revision i's iteration, before its comparison starts.
C8_ProgressBeforeComparison ==
    /\ \A j \in 1..Len(stdout) : stdout[j] = [i |-> j, total |-> Len(log)]
    /\ InBody => Len(stdout) = Len(compared) + 1
    /\ ~InBody => Len(stdout) = Len(compared)
    /\ (pc = "exit" /\ exitStatus = 0) => Len(stdout) = Len(log)

\* a finished run of two revisions, one matched and one not, with both updates
C8_Witness ==
    /\ pc = "exit" /\ exitStatus = 0 /\ Len(log) = 2
    /\ stdout = <<[i |-> 1, total |-> 2], [i |-> 2, total |-> 2]>>
    /\ nwrites = 2

\* C9: the url is file:// followed by the probed url when the type is
\* subversion and the probed url starts with /, and the probed url itself in
\* every other case; rewriting it again changes nothing.
C9_UrlNormalized ==
    ProbeParsed =>
        LET raw == Strip(out[2])
        IN  /\ (type = Subversion /\ raw # <<>> /\ Head(raw) = "/")
                  => url = <<"f","i","l","e",":","/","/">> \o raw
            /\ ~(type = Subversion /\ raw # <<>> /\ Head(raw) = "/") => url = raw
            /\ NormalizeUrl(type, url) = url

C9_Witness ==
    /\ pc = "lookup" /\ type = Subversion
    /\ url = <<"f","i","l","e",":","/","/","/","s","r","v","/","r","e","p","o">>

\* C10: when the filtered log is empty the run makes no comparison (the probe
\* and the log command are the only commands run), writes no file, warns
\* about nothing and ends with exit status 0.
C10_EmptyLogCleanExit ==
    (LogEnumerated /\ Len(log) = 0) =>
        /\ Len(cmds) = 2
        /\ compared = <<>> /\ stdout = <<>> /\ stderr = <<>>
        /\ DOMAIN files = {} /\ nwrites = 0
        /\ pc \in {"prepare", "each", "exit"}
        /\ pc = "exit" => exitStatus = 0

C10_Witness ==
    /\ pc = "exit" /\ exitStatus = 0 /\ type = Subversion
    /\ "log" \in openPipes /\ Len(log) = 0 /\ Len(cmds) = 2

\* the directory part of a path: all that precedes its last /
DirOf(f) ==
    LET slashes == { j \in 1..Len(f) : f[j] = "/" }
        last == CHOOSE j \in slashes : \A j2 \in slashes : j2 <= j
    IN  SubSeq(f, 1, last - 1)

\* C11: every artifact file lies in the directory the script was launched
\* from, also for git and mercurial, where the working directory has been
\* moved to the checkout and the file is not there; and olddir, once taken,
\* is never changed.
C11_ArtifactsInLaunchDir ==
    /\ [](\A f \in DOMAIN files :
             /\ DirOf(f) = LaunchDir
             /\ cwd # LaunchDir => DirOf(f) # cwd)
    /\ [][olddir # <<>> => olddir' = olddir]_vars

\* a git run whose working directory is the checkout and that wrote artifacts
C11_Witness ==
    /\ type = Git /\ cwd = AbsRepo /\ olddir = LaunchDir
    /\ nwrites = 2 /\ \A f \in DOMAIN files : DirOf(f) = LaunchDir

\* the checkout the probe reported, as the directory git and hg are run in
Checkout == AbsolutePath(LaunchDir, url)

\* the commands the backend table prescribes, written out per backend
LogCommand ==
    CASE type = Subversion -> [cmd |-> <<"svn log -q ">> \o url, cwd |-> LaunchDir]
      [] type = Git        -> [cmd |-> <<"git rev-list HEAD">>, cwd |-> Checkout]
      [] type = Mercurial  -> [cmd |-> <<"hg log -q">>, cwd |-> Checkout]
SingleDiffCommand(r) ==
    CASE type = Subversion -> [cmd |-> <<"svn diff -c ">> \o r \o <<" ">> \o url,
                               cwd |-> LaunchDir]
      [] type = Git        -> [cmd |-> <<"git diff-tree -U --no-renames --root ">> \o r,
                               cwd |-> Checkout]
      [] type = Mercurial  -> [cmd |-> <<"hg diff -c ">> \o r, cwd |-> Checkout]
DiffstatCommand ==
    CASE type = Subversion -> <<"diffstat -t -p", "0">>
      [] type = Git        -> <<"diffstat -t -p", "1">>
      [] type = Mercurial  -> <<"diffstat -t -p", "1">>

\* C13: the second command of a run is the backend's log command, and for
\* the n-th revision the native diff is the backend's single-revision diff of
\* that revision and diffstat strips 0 path components for subversion and 1
\* for git and mercurial; the url is put into the subversion commands only,
\* and the git and mercurial commands run in the checkout.
C13_CommandsMatchBackendTable ==
    /\ Len(cmds) >= 2 => cmds[2] = LogCommand
    /\ \A n \in 1..MaxLog :
          /\ 3 * n + 1 <= Len(cmds) =>
                cmds[3 * n + 1] = SingleDiffCommand(Strip(log[n]))
          /\ 3 * n + 2 <= Len(cmds) =>
                cmds[3 * n + 2].cmd = DiffstatCommand

\* a subversion run that has issued the three commands of a revision
C13_Witness ==
    /\ type = Subversion /\ pc = "exit" /\ exitStatus = 0
    /\ Len(cmds) = 5
    /\ cmds[2].cmd = <<"svn log -q ">> \o url
    /\ cmds[5].cmd = <<"diffstat -t -p", "0">>

\* C14: at most one pipe is open at any time, and none is open when the
\* loop over the revisions starts, while it goes from one revision to the
\* next, or when the run has ended.
C14_PipesClosedInTurn ==
    /\ Cardinality(openPipes) <= 1
    /\ pc \in {"prepare", "each", "exit"} => openPipes = {}

\* the two pepper command lines
ProbeCommand == pepper \o <<" -q ", "type.tmp", " ">> \o repo
PepperCommand(r) ==
    pepper \o <<" --no-cache -q ", "diff.tmp", " -r">> \o r \o <<" ">> \o repo

\* how many of the current revision's three commands have been started
Started ==
    CASE pc \in {"prepare", "each", "pepper"} -> 0
      [] pc \in {"pepper_close", "native"} -> 1
      [] pc \in {"native_close", "diffstat"} -> 2
      [] pc \in {"diffstat_close", "compare"} -> 3
      [] OTHER -> 0

\* C15: the probe is the first command and is run once, the log command is
\* the second and is run once, and after them the commands come in threes,
\* one three per revision in list order: pepper with caching disabled on
\* that revision, the native diff of the same revision, and diffstat, whose
\* input is what that native diff printed.  The commands of a revision are
\* started only when every earlier revision has been compared and reported.
C15_OrderedSubprocesses ==
    /\ Len(cmds) >= 1 => cmds[1].cmd = ProbeCommand
    /\ Len(cmds) >= 2 => cmds[2] = LogCommand
    /\ \A j \in 2..Len(cmds) : cmds[j].cmd # ProbeCommand
    /\ \A j \in 3..Len(cmds) : cmds[j].cmd # LogCommand.cmd
    /\ \A n \in 1..MaxLog :
          /\ 3 * n <= Len(cmds) =>
                /\ cmds[3 * n].cmd = PepperCommand(Strip(log[n]))
                /\ Len(compared) >= n - 1
          /\ 3 * n + 1 <= Len(cmds) =>
                cmds[3 * n + 1] = SingleDiffCommand(Strip(log[n]))
          /\ 3 * n + 2 <= Len(cmds) =>
                Head(cmds[3 * n + 2].cmd) = "diffstat -t -p"
    /\ \A j \in 1..Len(compared) : compared[j] = j
    /\ pc \in {"prepare", "each"} \cup InBodyPcs =>
          Len(cmds) = 2 + 3 * Len(compared) + Started
    /\ pc \in InBodyPcs => k = Len(compared) + 1 /\ rev = Strip(log[k])
    /\ pc \in {"pepper", "pepper_close", "native"} => diff_data = <<>>
    /\ pc = "diffstat_close" => pipe.name = "diffstat" /\ pipe.stdin = diff_data
    /\ (pc = "exit" /\ exitStatus = 0) => Len(cmds) = 2 + 3 * Len(log)

\* a finished git run of two different revisions: eight commands
C15_Witness ==
    /\ pc = "exit" /\ exitStatus = 0 /\ type = Git
    /\ Len(log) = 2 /\ Strip(log[1]) # Strip(log[2])
    /\ Len(cmds) = 8 /\ compared = <<1, 2>>

\* C16: once one of a revision's helpers (pepper, the native diff,
\* diffstat) has ended with a status other than 0, the run has stopped with
\* a SubprocessError: the script does not go on to the revision's next
\* helper or to its comparison.
C16_HelperFailureSurfaced ==
    (\E j \in 1..Len(helperExits) : helperExits[j] # 0) =>
        pc = "exit" /\ error = "SubprocessError"

\* C17: in every pepper command (the probe, which is the first command, and
\* the first of each revision's three) the repository argument, resolved
\* against the directory the command is run in, is the repository that the
\* probe's argument resolved to, whether the argument is absolute or
\* relative and whether or not the working directory has been moved.
C17_RepoArgumentStable ==
    \A j \in 1..Len(cmds) :
        (j = 1 \/ j % 3 = 0) =>
            /\ cmds[j].cmd \in {ProbeCommand} \cup
                               { PepperCommand(Strip(log[n])) : n \in 1..Len(log) }
            /\ AbsolutePath(cmds[j].cwd, repo) = AbsolutePath(cmds[1].cwd, repo)

\* C18: while the Plot is alive every temporary file that tempfile has
\* created is recorded in m_tempfiles and every recorded file is still on
\* disk, whatever calls have been made and however they ended; once the
\* Plot has been destroyed no file it created is left and m_tempfiles is
\* empty.
C18_TempfilesLifecycle ==
    /\ plot = "alive" => /\ created \subseteq Range(m_tempfiles)
                         /\ Range(m_tempfiles) \subseteq tmpfs
    /\ plot = "destroyed" => /\ tmpfs \cap created = {}
                             /\ m_tempfiles = <<>>

====
